---- MODULE Spec2Model ----
(***************************************************************************)
(* Elevation / shadow behaviour of kivymd/uix/behaviors/elevation.py:      *)
(* the per-widget shadow state and the process-wide shadow-group registry; *)
(* and the colour theme manager and the themable mixin of                  *)
(* kivymd/theming.py.                                                      *)
(*                                                                         *)
(* Numbers.  Kivy numeric properties hold Python floats.  The model keeps  *)
(* every number as an integer count of hundredths (fixed point), so 250    *)
(* stands for 2.5 and Px(4) = 400 for 4.  The input sets below are chosen  *)
(* so that every product and quotient the code forms is exact in           *)
(* hundredths; binary floating-point rounding is not modelled.             *)
(***************************************************************************)
EXTENDS Integers, Sequences, FiniteSets, TLC

VARIABLES
    density,        \* kivy.metrics.Metrics.density, the factor dp() applies
    life,           \* life[w]: "unborn", "live" or "dead" (garbage-collected)
    widgets,        \* widgets[w]: the property values of widget w
    shadow_groups,  \* CommonElevationBehavior.__shadow_groups, in dict order
    app,            \* what App.get_running_app() returns
    theme_cls,      \* the property values of the ThemeManager
    clock,          \* callbacks scheduled on the Clock, in scheduling order
    themable,       \* themable[w]: the ThemableBehavior part of widget w
    last            \* the operation that produced this state (history)

themeVars == <<app, theme_cls, clock, themable>>

vars == <<density, life, widgets, shadow_groups, themeVars, last>>

\* ------------------------------------------------------------------ bounds
NWidgets == 2
MaxRefs == 3

Widgets == 1..NWidgets

\* ----------------------------------------------------------------- numbers
Px(n) == n * 100

\* Python int(): truncation toward zero.
int(v) ==
    IF v >= 0 THEN (v \div 100) * 100 ELSE -(((-v) \div 100) * 100)

\* kivy.metrics.dp: value * Metrics.density.
dp(v) == (v * density) \div 100

Min(a, b) == IF a < b THEN a ELSE b

Max(a, b) == IF a > b THEN a ELSE b

None == "None"
NoExc == "none"

\* The 4x4 fully transparent image built in __init__ and in the else
\* branch of _update_shadow.
Placeholder ==
    [kind |-> "placeholder", size |-> <<Px(4), Px(4)>>,
     origin |-> <<0, 0>>, end |-> <<0, 0>>]

\* An image of the given size with the draw hook applied to [origin, end].
Drawn(shape, size, origin, end) ==
    [kind |-> shape, size |-> size, origin |-> origin, end |-> end]

\* ------------------------------------------------------- property defaults
\* The class-level property declarations, and the widget defaults
\* pos = (0, 0), size = (100, 100), before __init__ runs.
Defaults ==
    [cls |-> "Common",
     x |-> 0, y |-> 0, size |-> <<Px(100), Px(100)>>,
     disabled |-> FALSE,
     elevation |-> 0, _elevation |-> 0,
     radius |-> <<0, 0, 0, 0>>,
     _shadow_origin |-> <<0, 0>>,
     _shadow_pos |-> <<0, 0>>, shadow_pos |-> <<0, 0>>,
     shadow_group |-> "global", prev_shadow_group |-> None,
     _soft_shadow_texture |-> Placeholder,
     soft_shadow_size |-> <<0, 0>>, soft_shadow_pos |-> <<0, 0>>,
     soft_shadow_cl |-> <<0, 0, 0, 50>>,
     hard_shadow_texture |-> Placeholder,
     hard_shadow_size |-> <<0, 0>>, hard_shadow_pos |-> <<0, 0>>,
     hard_shadow_cl |-> <<0, 0, 0, 15>>,
     hard_shadow_offset |-> Px(2), soft_shadow_offset |-> Px(4),
     preset |-> "none",
     context |-> <<>>,
     exc |-> NoExc, draws |-> 0, runs |-> 0]

\* ------------------------------------------------------ shadow state manager
_update_shadow_pos(s) ==
    LET hard == <<s.x - dp(s.hard_shadow_offset),
                  s.y - dp(s.hard_shadow_offset)>>
        off == IF s.shadow_pos = <<0, 0>> THEN s._shadow_pos ELSE s.shadow_pos
        soft == <<s.x + off[1] - s._elevation - dp(s.soft_shadow_offset),
                  s.y + off[2] - s._elevation - dp(s.soft_shadow_offset)>>
    IN  [s EXCEPT !.hard_shadow_pos = hard,
                  !.soft_shadow_pos = soft,
                  !._shadow_origin = <<soft[1] + s.soft_shadow_size[1] \div 2,
                                       soft[2] + s.soft_shadow_size[2] \div 2>>]

\* Assignment to the ListProperty _shadow_pos; on__shadow_pos fires on change.
on__shadow_pos(s, val) ==
    IF s._shadow_pos = val THEN s
    ELSE _update_shadow_pos([s EXCEPT !._shadow_pos = val])

\* Assignment to the ListProperty shadow_pos; on_shadow_pos fires on change.
on_shadow_pos(s, val) ==
    IF s.shadow_pos = val THEN s
    ELSE _update_shadow_pos([s EXCEPT !.shadow_pos = val])

\* One call on the ImageDraw context: the figure and its coordinate list.
Figure(kind, xy) == [kind |-> kind, xy |-> xy]

\* The four context.pieslice calls of the rounded hook, with
\* radius = [x * 2 for x in self.radius].
Pieslices(radius, origin, end) ==
    <<Figure("pieslice", <<origin[1], origin[2],
                           origin[1] + radius[1] * 2, origin[2] + radius[1] * 2>>),
      Figure("pieslice", <<end[1] - radius[2] * 2, origin[2],
                           end[1], origin[2] + radius[2] * 2>>),
      Figure("pieslice", <<end[1] - radius[3] * 2, end[2] - radius[3] * 2,
                           end[1], end[2]>>),
      Figure("pieslice", <<origin[1], end[2] - radius[4] * 2,
                           origin[1] + radius[4] * 2, end[2]>>)>>

\* The two rectangles drawn when the four radii are equal; r is
\* int(self.radius[0]).
EqualRadiiFill(r, origin, end) ==
    <<Figure("rectangle", <<origin[1] + r, origin[2], end[1] - r, end[2]>>),
      Figure("rectangle", <<origin[1], origin[2] + r, end[1], end[2] - r>>)>>

\* The four rectangles drawn when the radii differ; m is the list of the
\* pairwise maxima, radius is self.radius.
UnequalRadiiFill(radius, m, origin, end) ==
    <<Figure("rectangle", <<origin[1] + radius[1], origin[2],
                            end[1] - radius[2], end[2] - m[3]>>),
      Figure("rectangle", <<origin[1] + m[4], origin[2] + radius[2],
                            end[1], end[2] - radius[3]>>),
      Figure("rectangle", <<origin[1] + radius[4], origin[2] + m[1],
                            end[1] - radius[3], end[2]>>),
      Figure("rectangle", <<origin[1], origin[2] + radius[1],
                            end[1] - m[3], end[2] - radius[4]>>)>>

PairwiseMax(radius) ==
    <<Max(radius[1], radius[2]), Max(radius[2], radius[3]),
      Max(radius[3], radius[4]), Max(radius[4], radius[1])>>

AllEqual(radius) == \A i \in 1..Len(radius) : radius[i] = radius[1]

\* RoundedRectangularElevationBehavior.__draw_shadow__
RoundedRectangularDraw(radius, origin, end) ==
    IF radius = <<0, 0, 0, 0>> THEN <<Figure("rectangle", origin \o end)>>
    ELSE IF AllEqual(radius)
    THEN Pieslices(radius, origin, end)
         \o EqualRadiiFill(int(radius[1]), origin, end)
    ELSE Pieslices(radius, origin, end)
         \o UnequalRadiiFill(radius, PairwiseMax(radius), origin, end)

\* The __draw_shadow__ of the three subclasses: what each draws on the context.
HookDraw(cls, radius, origin, end) ==
    CASE cls = "Rectangular" -> <<Figure("rectangle", origin \o end)>>
      [] cls = "Circular" -> <<Figure("ellipse", origin \o end)>>
      [] cls = "RoundedRectangular" -> RoundedRectangularDraw(radius, origin, end)

draw_shadow_base_only(s, origin, end) ==
    IF s.cls \in {"Common", "Circular"}
    THEN [s EXCEPT !.exc = "NotImplementedError"]
    ELSE [s EXCEPT !.draws = @ + 1,
                   !.context = HookDraw(s.cls, s.radius, origin, end)]

\* self.draw_shadow()(origin, end, context=...): the base class hook raises,
\* the three subclasses draw their shape.  context keeps what the last call
\* of the hook drew.
draw_shadow(s, origin, end) ==
    IF s.cls = "Common" THEN [s EXCEPT !.exc = "NotImplementedError"]
    ELSE [s EXCEPT !.draws = @ + 1,
                   !.context = HookDraw(s.cls, s.radius, origin, end)]

\* -self._elevation * 0.4
ElevationBias(e) == -((e * 4) \div 10)

HardOffset(s) == int(dp(s.hard_shadow_offset))

HardSizeOneSide(s) ==
    <<int(s.size[1] + HardOffset(s)), int(s.size[2] + HardOffset(s))>>

HardSize(s) ==
    <<int(s.size[1] + HardOffset(s) * 2), int(s.size[2] + HardOffset(s) * 2)>>

SoftSize(s) ==
    <<int(s.size[1] + dp(s._elevation * 2) + dp(s.soft_shadow_offset) * 2),
      int(s.size[2] + dp(s._elevation * 2) + dp(s.soft_shadow_offset) * 2)>>

SoftOffset(s) == int(dp(s._elevation + dp(s.soft_shadow_offset)))

BiasStageAlways(s) == on__shadow_pos(s, <<0, ElevationBias(s._elevation)>>)

\* "dynamic elevation position": _shadow_pos follows _elevation unless the
\* custom shadow_pos is set.
BiasStage(s) ==
    IF s.shadow_pos = <<0, 0>>
    THEN on__shadow_pos(s, <<0, ElevationBias(s._elevation)>>)
    ELSE s

\* The hard shadow: draw, then store size and texture.
HardDrawn(s, offset, size) ==
    IF s.exc # NoExc THEN s
    ELSE [s EXCEPT
             !.hard_shadow_size = size,
             !.hard_shadow_texture =
                 Drawn(s.cls, size, <<offset, offset>>,
                       <<int(size[1] - Px(1) - offset),
                         int(size[2] - Px(1) - offset)>>)]

HardStage(s) ==
    HardDrawn(draw_shadow(s, <<HardOffset(s), HardOffset(s)>>,
                          <<int(HardSize(s)[1] - Px(1) - HardOffset(s)),
                            int(HardSize(s)[2] - Px(1) - HardOffset(s))>>),
              HardOffset(s), HardSize(s))

\* The soft shadow: draw, then store size and texture.
SoftDrawn(s, offset, size) ==
    IF s.exc # NoExc THEN s
    ELSE [s EXCEPT
             !.soft_shadow_size = size,
             !._soft_shadow_texture =
                 Drawn(s.cls, size, <<offset, offset>>,
                       <<int(size[1] - offset - Px(1)),
                         int(size[2] - offset - Px(1))>>)]

SoftStage(s) ==
    IF s.exc # NoExc THEN s
    ELSE SoftDrawn(draw_shadow(s, <<SoftOffset(s), SoftOffset(s)>>,
                               <<int(SoftSize(s)[1] - SoftOffset(s) - Px(1)),
                                 int(SoftSize(s)[2] - SoftOffset(s) - Px(1))>>),
                   SoftOffset(s), SoftSize(s))

BlankStageSoftOnly(s) == [s EXCEPT !._soft_shadow_texture = Placeholder]

BlankStage(s) ==
    [s EXCEPT !._soft_shadow_texture = Placeholder,
              !.hard_shadow_texture = Placeholder]

ShadowStages(s) ==
    IF s._elevation > 0 THEN SoftStage(HardStage(BiasStage(s)))
    ELSE BlankStage(s)

\* runs counts the calls of _update_shadow within one operation, draws the
\* calls of the draw hook that returned.
_update_shadow(s) ==
    IF s.exc # NoExc THEN s
    ELSE ShadowStages(_update_shadow_pos([s EXCEPT !.runs = @ + 1]))

\* Every callback bound to pos and size: _update_shadow is bound to both in
\* __init__ and once more in shadow_preset.
GeometryChanged(s) ==
    IF s.preset = "bound" THEN _update_shadow(_update_shadow(s))
    ELSE _update_shadow(s)

\* Assignment to the NumericProperty _elevation; _update_shadow is bound to
\* it by shadow_preset.
Set_elevation(s, value) ==
    IF s._elevation = value THEN s
    ELSE IF s.preset = "bound"
    THEN _update_shadow([s EXCEPT !._elevation = value])
    ELSE [s EXCEPT !._elevation = value]

on_elevation_ignored(s, value) == s

\* on_elevation: self._elevation = value (value is never None here).
on_elevation(s, value) == Set_elevation(s, value)

SetElevationUnbounded(s, value) ==
    IF s.elevation = value THEN s
    ELSE on_elevation([s EXCEPT !.elevation = value], value)

\* Assignment to elevation = BoundedNumericProperty(0, min=0).
SetElevation(s, value) ==
    IF value < 0 THEN [s EXCEPT !.exc = "ValueError"]
    ELSE IF s.elevation = value THEN s
    ELSE on_elevation([s EXCEPT !.elevation = value], value)

on_disabled_no_restore(s) == _update_shadow(Set_elevation(s, 0))

on_disabled(s) ==
    _update_shadow(Set_elevation(s, IF s.disabled THEN 0 ELSE s.elevation))

SetDisabled(s, value) ==
    IF s.disabled = value THEN s
    ELSE on_disabled([s EXCEPT !.disabled = value])

SetPos(s, value) ==
    IF <<s.x, s.y>> = value THEN s
    ELSE GeometryChanged([s EXCEPT !.x = value[1], !.y = value[2]])

SetSize(s, value) ==
    IF s.size = value THEN s
    ELSE GeometryChanged([s EXCEPT !.size = value])

\* --------------------------------------------------------------- radius
\* radius = VariableListProperty([0]) (length 4): one value fills the four
\* corners, two values alternate, four values are stored as given; any
\* other length is rejected.
VariableListPaired(v) ==
    IF Len(v) = 1 THEN <<v[1], v[1], v[1], v[1]>>
    ELSE IF Len(v) = 2 THEN <<v[1], v[1], v[2], v[2]>>
    ELSE v

VariableList(v) ==
    IF Len(v) = 1 THEN <<v[1], v[1], v[1], v[1]>>
    ELSE IF Len(v) = 2 THEN <<v[1], v[2], v[1], v[2]>>
    ELSE v

\* Assignment to radius; _update_shadow is bound to it in __init__.
SetRadius(s, value) ==
    IF Len(value) \notin {1, 2, 4} THEN [s EXCEPT !.exc = "ValueError"]
    ELSE IF s.radius = VariableList(value) THEN s
    ELSE _update_shadow([s EXCEPT !.radius = VariableList(value)])

\* ------------------------------------------------------- colours and offsets
ClampBelowOnly(value) == IF value < 0 THEN 0 ELSE value

Clamp(value) == IF value < 0 THEN 0 ELSE IF value > Px(1) THEN Px(1) ELSE value

\* self.soft_shadow_cl[-1] = value, after the clamp
_set_soft_shadow_a(s, value) ==
    [s EXCEPT !.soft_shadow_cl[Len(s.soft_shadow_cl)] = Clamp(value)]

_set_hard_shadow_a_unclamped(s, value) ==
    [s EXCEPT !.hard_shadow_cl[Len(s.hard_shadow_cl)] = value]

_set_hard_shadow_a(s, value) ==
    [s EXCEPT !.hard_shadow_cl[Len(s.hard_shadow_cl)] = Clamp(value)]

_get_soft_shadow_a(s) == s.soft_shadow_cl[Len(s.soft_shadow_cl)]

_get_hard_shadow_a(s) == s.hard_shadow_cl[Len(s.hard_shadow_cl)]

\* BoundedNumericProperty(.., min=0, errorhandler=lambda x: 0 if x < 0 else x)
OffsetValue(value) == IF value < 0 THEN 0 ELSE value

\* ------------------------------------------------------ property assignment
\* setattr(widget, name, value) for the properties that touch only the
\* widget itself (shadow_group also touches the registry: SetShadowGroup).
SetProp(s, name, value) ==
    CASE name = "elevation" -> SetElevation(s, value)
      [] name = "_elevation" -> Set_elevation(s, value)
      [] name = "disabled" -> SetDisabled(s, value)
      [] name = "pos" -> SetPos(s, value)
      [] name = "size" -> SetSize(s, value)
      [] name = "radius" -> SetRadius(s, value)
      [] name = "shadow_pos" -> on_shadow_pos(s, value)
      [] name = "soft_shadow_cl" -> [s EXCEPT !.soft_shadow_cl = value]
      [] name = "hard_shadow_cl" -> [s EXCEPT !.hard_shadow_cl = value]
      [] name = "_soft_shadow_a" -> _set_soft_shadow_a(s, value)
      [] name = "_hard_shadow_a" -> _set_hard_shadow_a(s, value)
      [] name = "hard_shadow_offset" ->
             [s EXCEPT !.hard_shadow_offset = OffsetValue(value)]
      [] name = "soft_shadow_offset" ->
             [s EXCEPT !.soft_shadow_offset = OffsetValue(value)]

\* What stays in the widget once the operation has returned or raised.
Settle(s) == [s EXCEPT !.exc = NoExc, !.draws = 0, !.runs = 0]

\* ------------------------------------------------------ shadow group registry
\* A weak reference created by ref(self, callback): n tells the references
\* to one widget apart (ref objects with a callback are never shared).
IsDead(wk) == life[wk.w] # "live"

HasGroup(reg, g) == \E i \in 1..Len(reg) : reg[i].name = g

AllRefs(reg) == UNION {{reg[i].refs[j] : j \in 1..Len(reg[i].refs)} : i \in 1..Len(reg)}

RefCount(reg) ==
    LET RECURSIVE Sum(_)
        Sum(i) == IF i = 0 THEN 0 ELSE Len(reg[i].refs) + Sum(i - 1)
    IN  Sum(Len(reg))

NewRef(reg, w) ==
    [w |-> w,
     n |-> CHOOSE k \in 1..(RefCount(reg) + 1) :
               /\ [w |-> w, n |-> k] \notin AllRefs(reg)
               /\ \A j \in 1..(k - 1) : [w |-> w, n |-> j] \in AllRefs(reg)]

\* list.remove(x): drops the first element equal to x.
RemoveFirst(refs, wk) ==
    IF \E i \in 1..Len(refs) : refs[i] = wk
    THEN LET k == CHOOSE i \in 1..Len(refs) :
                      refs[i] = wk /\ \A j \in 1..(i - 1) : refs[j] # wk
         IN  SubSeq(refs, 1, k - 1) \o SubSeq(refs, k + 1, Len(refs))
    ELSE refs

\* for widget in group[:]: if widget() is self: group.remove(widget)
RemoveSelf(refs, w) == SelectSeq(refs, LAMBDA wk : wk.w # w)

GroupIndex(reg, g) == CHOOSE i \in 1..Len(reg) : reg[i].name = g

\* on_shadow_group(self, instance, value) for widget w with properties s:
\* the new registry and the new properties.  "if self.prev_shadow_group"
\* is a truth test: None and the empty string both skip the removal.
on_shadow_group(reg, s, w) ==
    LET prev == s.prev_shadow_group
        reg1 == IF prev # None /\ prev # ""
                THEN [reg EXCEPT ![GroupIndex(reg, prev)].refs = RemoveSelf(@, w)]
                ELSE reg
        group == s.shadow_group
        reg2 == IF HasGroup(reg1, group) THEN reg1
                ELSE Append(reg1, [name |-> group, refs |-> <<>>])
        r == NewRef(reg2, w)
    IN  [reg |-> [reg2 EXCEPT ![GroupIndex(reg2, group)].refs = Append(@, r)],
         s |-> [s EXCEPT !.prev_shadow_group = group]]

\* _clear_shadow_groups(wk), the finalizer of a reference that has died.
_clear_shadow_groups(reg, wk) ==
    LET RECURSIVE Loop(_)
        Loop(i) ==
            IF i > Len(reg) THEN reg
            ELSE IF Len(reg[i].refs) = 0 THEN reg
            ELSE IF \E j \in 1..Len(reg[i].refs) : reg[i].refs[j] = wk
            THEN [reg EXCEPT ![i].refs = RemoveFirst(@, wk)]
            ELSE Loop(i + 1)
    IN  Loop(1)

\* The finalizers of every reference to a widget that has just died, run
\* one after the other in the given order.
RECURSIVE RunFinalizers(_, _, _)
RunFinalizers(reg, order, i) ==
    IF i > Len(order) THEN reg
    ELSE RunFinalizers(_clear_shadow_groups(reg, order[i]), order, i + 1)

Orders(S) ==
    {f \in [1..Cardinality(S) -> S] : \A i, j \in 1..Cardinality(S) : f[i] = f[j] => i = j}

\* The loop shared by force_shadow_pos and update_group_property:
\*     for wk in group[:]:
\*         widget = wk()
\*         if widget is None: group.remove(wk)
\*         setattr(widget, name, value)
\* The result is the group list, the widgets and the exception that ended
\* the loop, if any.  setattr on None raises AttributeError.
RECURSIVE GroupLoop(_, _, _, _, _, _, _)
LoopStep(copy, i, group, ws, name, value, n, t) ==
    IF t.exc # NoExc
    THEN [group |-> group, ws |-> [ws EXCEPT ![copy[i].w] = Settle(t)],
          exc |-> t.exc, draws |-> n.draws + t.draws, runs |-> n.runs + t.runs]
    ELSE GroupLoop(copy, i + 1, group, [ws EXCEPT ![copy[i].w] = Settle(t)],
                   name, value,
                   [draws |-> n.draws + t.draws, runs |-> n.runs + t.runs])

GroupLoop(copy, i, group, ws, name, value, n) ==
    IF i > Len(copy)
    THEN [group |-> group, ws |-> ws, exc |-> NoExc,
          draws |-> n.draws, runs |-> n.runs]
    ELSE IF IsDead(copy[i])
    THEN [group |-> RemoveFirst(group, copy[i]), ws |-> ws,
          exc |-> "AttributeError", draws |-> n.draws, runs |-> n.runs]
    ELSE LoopStep(copy, i, group, ws, name, value, n,
                  SetProp(ws[copy[i].w], name, value))

HasDeadRef(refs) == \E i \in 1..Len(refs) : IsDead(refs[i])

\* ------------------------------------------------------------------ history
\* op, w, name, arg: the operation, the widget it was called on, the
\* property it names and the value it was given; exc: the exception it raised; runs, draws: how often it ran
\* _update_shadow and the draw hook; dead: whether the group list of a bulk
\* operation held a dead reference when it was called.
Done(op, w, name, value, exc, draws, runs, dead) ==
    [op |-> op, w |-> w, name |-> name, arg |-> value,
     exc |-> exc, draws |-> draws, runs |-> runs, dead |-> dead]

\* ------------------------------------------------------------------ actions
\* CommonElevationBehavior.__init__ (the subclasses install their hook and
\* call it); keyword arguments are the assignments that follow.
Construct(w, cls) ==
    /\ life[w] = "unborn"
    /\ RefCount(shadow_groups) < MaxRefs
    /\ \E r \in {on_shadow_group(shadow_groups,
               [Defaults EXCEPT !.cls = cls, !.preset = "pending"], w)} :
           /\ shadow_groups' = r.reg
           /\ widgets' = [widgets EXCEPT ![w] = r.s]
    /\ life' = [life EXCEPT ![w] = "live"]
    /\ last' = Done("__init__", w, "", cls, NoExc, 0, 0, FALSE)
    /\ UNCHANGED <<density, themeVars>>

\* shadow_preset, run by the clock before the next frame.
ShadowPreset(w) ==
    /\ life[w] = "live"
    /\ widgets[w].preset = "pending"
    /\ \E t \in {_update_shadow(widgets[w])} :
           /\ widgets' = [widgets EXCEPT ![w] =
                  Settle([t EXCEPT !.preset =
                              IF t.exc = NoExc THEN "bound" ELSE "failed"])]
           /\ last' = Done("shadow_preset", w, "", 0, t.exc, t.draws, t.runs, FALSE)
    /\ UNCHANGED <<density, life, shadow_groups, themeVars>>

\* widget.<name> = value
Assign(w, name, value) ==
    /\ life[w] = "live"
    /\ \E t \in {SetProp(widgets[w], name, value)} :
           /\ widgets' = [widgets EXCEPT ![w] = Settle(t)]
           /\ last' = Done("assign", w, name, value, t.exc, t.draws, t.runs, FALSE)
    /\ UNCHANGED <<density, life, shadow_groups, themeVars>>

\* widget.shadow_group = g; on_shadow_group fires when the value changes.
SetShadowGroup(w, g) ==
    /\ life[w] = "live"
    /\ widgets[w].shadow_group # g
    /\ \E r \in {on_shadow_group(shadow_groups,
                                [widgets[w] EXCEPT !.shadow_group = g], w)} :
           /\ RefCount(r.reg) <= MaxRefs
           /\ shadow_groups' = r.reg
           /\ widgets' = [widgets EXCEPT ![w] = r.s]
    /\ last' = Done("assign", w, "shadow_group", g, NoExc, 0, 0, FALSE)
    /\ UNCHANGED <<density, life, themeVars>>

\* A direct call widget.on_shadow_group(instance, value); the code reads
\* self.shadow_group and ignores both arguments.
CallOnShadowGroup(w) ==
    /\ life[w] = "live"
    /\ \E r \in {on_shadow_group(shadow_groups, widgets[w], w)} :
           /\ RefCount(r.reg) <= MaxRefs
           /\ shadow_groups' = r.reg
           /\ widgets' = [widgets EXCEPT ![w] = r.s]
    /\ last' = Done("on_shadow_group", w, "", widgets[w].shadow_group,
                     NoExc, 0, 0, FALSE)
    /\ UNCHANGED <<density, life, themeVars>>

\* The last strong reference to w is dropped: every weak reference to it
\* dies and its finalizer runs.  The order between several references to
\* one widget is left open.
Collect(w) ==
    /\ life[w] = "live"
    /\ life' = [life EXCEPT ![w] = "dead"]
    /\ \E order \in Orders({wk \in AllRefs(shadow_groups) : wk.w = w}) :
           shadow_groups' = RunFinalizers(shadow_groups, order, 1)
    /\ widgets' = [widgets EXCEPT ![w] = Defaults]
    /\ last' = Done("collect", w, "", 0, NoExc, 0, 0, FALSE)
    /\ UNCHANGED <<density, themeVars>>

\* The body shared by the two bulk operations, called on widget w.
GroupOperation(op, w, name, value) ==
    /\ life[w] = "live"
    /\ \E k \in {GroupIndex(shadow_groups, widgets[w].shadow_group)} :
       \E r \in {GroupLoop(shadow_groups[k].refs, 1, shadow_groups[k].refs,
                            widgets, name, value,
                            [draws |-> 0, runs |-> 0])} :
           /\ shadow_groups' = [shadow_groups EXCEPT ![k].refs = r.group]
           /\ widgets' = r.ws
           /\ last' = Done(op, w, name, value, r.exc, r.draws, r.runs,
                           HasDeadRef(shadow_groups[k].refs))
    /\ UNCHANGED <<density, life, themeVars>>

force_shadow_pos(w, shadow_pos) ==
    GroupOperation("force_shadow_pos", w, "shadow_pos", shadow_pos)

update_group_property(w, property_name, value) ==
    GroupOperation("update_group_property", w, property_name, value)

\* ------------------------------------------------------------ theme manager
\* Colours are [r, g, b, a] lists of 0..255, as the scheme objects of
\* materialyoucolor hold them.  The tonal algorithm of that library is not
\* part of the repository: SchemeColor stands for it, a function of the
\* seed colour, the style and the position of the role that gives different
\* colours for the different seeds and styles used here.
Roles == <<"primary", "surface", "background">>

StyleLower(theme_style) == IF theme_style = "Light" THEN "light" ELSE "dark"

SchemeColor(seed, style, k) ==
    IF style = "light"
    THEN <<seed[1] \div (k + 1), seed[2] \div (k + 1), seed[3] \div (k + 1), 255>>
    ELSE <<255 - seed[1] \div (k + 1), 255 - seed[2] \div (k + 1),
           255 - seed[3] \div (k + 1), 255>>

\* kivy.utils.rgba of a list: every component divided by 255.
Rgba(c) ==
    <<(c[1] * 100) \div 255, (c[2] * 100) \div 255,
      (c[3] * 100) \div 255, (c[4] * 100) \div 255>>

\* current_color_theme: the keys of the dict and the seed its schemes were
\* derived from.  DictProperty() starts as the empty dict.
EmptyTheme == [keys |-> {}, seed |-> <<>>]

\* {"schemes": theme_from_source_color(seed).schemes}
ThemeFromSourceColor(seed) == [keys |-> {"schemes"}, seed |-> seed]

\* 0xFF4285F4, "default blue of Google"
DefaultSeed == <<66, 133, 244>>

\* hex_colormap[name.lower()] through get_color_from_hex, int(c * 255) and
\* argb_from_rgb.
HexColormap(name) ==
    CASE name = "Blue" -> <<0, 0, 255>>
      [] name = "Red" -> <<255, 0, 0>>

\* source_color_from_image(path) for the images that can be processed.
ImageSeed(path) ==
    IF path = "system.png" THEN <<10, 200, 30>> ELSE <<200, 100, 50>>

\* The image files source_color_from_image fails on.
BrokenImages == {"broken.png"}

ThemeDefaults ==
    [primary_palette |-> None,
     dynamic_color |-> FALSE,
     path_to_wallpaper |-> "",
     theme_style |-> "Light",
     current_color_theme |-> EmptyTheme,
     schemes_name_colors |-> <<>>,
     colors |-> [k \in 1..Len(Roles) |-> <<>>],
     disabledTextColor |-> <<>>,
     exc |-> NoExc, scheduled |-> <<>>, ran |-> <<>>]

_get_disabled_hint_text_color(tm) ==
    IF tm.theme_style = "Light" THEN <<0, 0, 0, 38>> ELSE <<100, 100, 100, 50>>

\* The tail shared by _set_dynamic_color, _set_palette_color and the
\* "schemes" branch of update_theme_colors: the role list of the active
\* style, one <role>Color attribute per role, and disabledTextColor.
PublishScheme(tm, theme) ==
    [tm EXCEPT
        !.schemes_name_colors = Roles,
        !.colors = [k \in 1..Len(Roles) |->
                       Rgba(SchemeColor(theme.seed, StyleLower(tm.theme_style), k))],
        !.disabledTextColor = _get_disabled_hint_text_color(tm)]

\* Assignment to theme_style: the bound lambda schedules update_theme_colors.
SetThemeStyle(tm, value) ==
    IF tm.theme_style = value THEN tm
    ELSE [tm EXCEPT !.theme_style = value,
                    !.scheduled = Append(@, "update_theme_colors")]

\* Assignment to primary_palette: the bound lambda schedules set_colors.
SetPrimaryPalette(tm, value) ==
    IF tm.primary_palette = value THEN tm
    ELSE [tm EXCEPT !.primary_palette = value,
                    !.scheduled = Append(@, "set_colors")]

\* default_theme has the single key "schemes": the lookup of the style
\* name in it raises KeyError once current_color_theme has been replaced.
_set_default_color(tm) ==
    [tm EXCEPT !.current_color_theme = ThemeFromSourceColor(DefaultSeed),
               !.exc = "KeyError"]

PaletteTheme(tm) == ThemeFromSourceColor(HexColormap(tm.primary_palette))

PaletteOrBlueRedispatched(tm) ==
    [tm EXCEPT !.primary_palette = IF @ = None THEN "Blue" ELSE @,
               !.scheduled = Append(@, "set_colors")]

\* if not self.primary_palette: self.primary_palette = "Blue"
PaletteOrBlue(tm) ==
    IF tm.primary_palette = None THEN SetPrimaryPalette(tm, "Blue") ELSE tm

_set_palette_color(tm) ==
    PublishScheme([PaletteOrBlue(tm) EXCEPT
                      !.current_color_theme = PaletteTheme(PaletteOrBlue(tm))],
                  PaletteTheme(PaletteOrBlue(tm)))

\* source_color_from_image raises before anything is assigned.
_set_dynamic_color(tm, path_to_wallpaper) ==
    IF path_to_wallpaper \in BrokenImages THEN [tm EXCEPT !.exc = "OSError"]
    ELSE PublishScheme(
             [tm EXCEPT !.current_color_theme =
                            ThemeFromSourceColor(ImageSeed(path_to_wallpaper))],
             ThemeFromSourceColor(ImageSeed(path_to_wallpaper)))

\* get_wallpaper(user_data_dir, path_to_wallpaper): a path, or nothing
\* ("") when no wallpaper is obtained.
GetWallpaper(path_to_wallpaper, outcome) ==
    IF outcome = "nothing" THEN ""
    ELSE IF path_to_wallpaper = "" THEN "system.png"
    ELSE path_to_wallpaper

SetColorsDynamic(tm, running, wallpaper) ==
    IF running = "none" THEN [tm EXCEPT !.exc = "AttributeError"]
    ELSE IF wallpaper # "" THEN _set_dynamic_color(tm, wallpaper)
    ELSE _set_palette_color(tm)

SetColorsStatic(tm) ==
    IF tm.primary_palette = None THEN _set_default_color(tm)
    ELSE _set_palette_color(tm)

\* set_colors; running is the running app, outcome what get_wallpaper does.
set_colors(tm, running, outcome) ==
    IF ~tm.dynamic_color
    THEN SetColorsStatic([tm EXCEPT !.ran = Append(@, "set_colors")])
    ELSE SetColorsDynamic([tm EXCEPT !.ran = Append(@, "set_colors")], running,
                          GetWallpaper(tm.path_to_wallpaper, outcome))

on_dynamic_color(tm, running, outcome) == set_colors(tm, running, outcome)

on_path_to_wallpaper_unguarded(tm, running, outcome) ==
    set_colors(tm, running, outcome)

on_path_to_wallpaper_ignored(tm, running, outcome) == tm

on_path_to_wallpaper(tm, running, outcome) ==
    IF tm.dynamic_color THEN set_colors(tm, running, outcome) ELSE tm

SetDynamicColor(tm, value, running, outcome) ==
    IF tm.dynamic_color = value THEN tm
    ELSE on_dynamic_color([tm EXCEPT !.dynamic_color = value], running, outcome)

SetPathToWallpaper(tm, value, running, outcome) ==
    IF tm.path_to_wallpaper = value THEN tm
    ELSE on_path_to_wallpaper([tm EXCEPT !.path_to_wallpaper = value],
                              running, outcome)

\* With the "schemes" key absent the else branch looks the style name up in
\* the dict itself and raises KeyError before anything is assigned.
UpdateFromSchemes(tm) ==
    IF "schemes" \in tm.current_color_theme.keys
    THEN PublishScheme(tm, tm.current_color_theme)
    ELSE [tm EXCEPT !.exc = "KeyError"]

update_theme_colors(tm) ==
    UpdateFromSchemes([tm EXCEPT !.ran = Append(@, "update_theme_colors")])

switch_theme(tm) ==
    SetThemeStyle(tm, IF tm.theme_style = "Light" THEN "Dark" ELSE "Light")

\* tm.<name> = value
SetThemeProp(tm, name, value, running, outcome) ==
    CASE name = "theme_style" -> SetThemeStyle(tm, value)
      [] name = "primary_palette" -> SetPrimaryPalette(tm, value)
      [] name = "dynamic_color" -> SetDynamicColor(tm, value, running, outcome)
      [] name = "path_to_wallpaper" ->
             SetPathToWallpaper(tm, value, running, outcome)

\* A callback the Clock fires.
RunCallback(tm, callback, running, outcome) ==
    IF callback = "set_colors" THEN set_colors(tm, running, outcome)
    ELSE update_theme_colors(tm)

\* What stays in the theme manager once the operation has returned or
\* raised; ran keeps the recomputations the operation ran.
ThemeSettle(tm) == [tm EXCEPT !.exc = NoExc, !.scheduled = <<>>]

ThemeStart(tm) == [tm EXCEPT !.ran = <<>>]

\* ---------------------------------------------------------- themable mixin
\* ThemableBehavior.__init__ for a widget whose theme_cls is preset (a value
\* given by the class before __init__ runs, or None) and whose keyword
\* arguments carry kwarg as theme_cls (or None).  running is the running
\* app: none, a plain App without a theme_cls property, or an MDApp.
NoThemable == [theme_cls |-> None, state |-> "unborn"]

ThemableCheckAnyApp(preset, running) ==
    IF preset # None THEN [theme_cls |-> preset, state |-> "checked"]
    ELSE IF running = "none" THEN [theme_cls |-> None, state |-> "ValueError"]
    ELSE [theme_cls |-> "app.theme_cls", state |-> "checked"]

ThemableCheck(preset, running) ==
    IF preset # None THEN [theme_cls |-> preset, state |-> "checked"]
    ELSE IF running = "none" THEN [theme_cls |-> None, state |-> "ValueError"]
    ELSE IF running = "plain" THEN [theme_cls |-> None, state |-> "ValueError"]
    ELSE [theme_cls |-> "app.theme_cls", state |-> "checked"]

ThemableInit(preset, kwarg, running) ==
    IF ThemableCheck(preset, running).state = "ValueError"
    THEN ThemableCheck(preset, running)
    ELSE [theme_cls |-> IF kwarg # None THEN kwarg
                        ELSE ThemableCheck(preset, running).theme_cls,
          state |-> "built"]

\* ------------------------------------------------------------ theme actions
MaxPending == 3

\* theme_cls.<name> = value
ThemeAssign(name, value) ==
    /\ \E outcome \in {"nothing", "found"} :
       \E t \in {SetThemeProp(ThemeStart(theme_cls), name, value, app, outcome)} :
           /\ Len(clock) + Len(t.scheduled) <= MaxPending
           /\ theme_cls' = ThemeSettle(t)
           /\ clock' = clock \o t.scheduled
           /\ last' = Done("theme_assign", 0, name, value, t.exc, 0, 0, FALSE)
    /\ UNCHANGED <<density, life, widgets, shadow_groups, app, themable>>

\* theme_cls.switch_theme()
SwitchTheme ==
    /\ \E t \in {switch_theme(ThemeStart(theme_cls))} :
           /\ Len(clock) + Len(t.scheduled) <= MaxPending
           /\ theme_cls' = ThemeSettle(t)
           /\ clock' = clock \o t.scheduled
           /\ last' = Done("switch_theme", 0, "theme_style", t.theme_style,
                           t.exc, 0, 0, FALSE)
    /\ UNCHANGED <<density, life, widgets, shadow_groups, app, themable>>

\* The Clock fires the callback that was scheduled first.
ClockTick ==
    /\ clock # <<>>
    /\ \E outcome \in {"nothing", "found"} :
       \E t \in {RunCallback(ThemeStart(theme_cls), Head(clock), app, outcome)} :
           /\ theme_cls' = ThemeSettle(t)
           /\ clock' = Tail(clock) \o t.scheduled
           /\ last' = Done("tick", 0, Head(clock), 0, t.exc, 0, 0, FALSE)
    /\ UNCHANGED <<density, life, widgets, shadow_groups, app, themable>>

\* An application starts running, or the running one stops.
RunApp(kind) ==
    /\ app # kind
    /\ app' = kind
    /\ last' = Done("app", 0, "", kind, NoExc, 0, 0, FALSE)
    /\ UNCHANGED <<density, life, widgets, shadow_groups, theme_cls, clock, themable>>

\* ThemableBehavior widget w is constructed (again: a new object).
ThemableConstruct(w, preset, kwarg) ==
    /\ themable' = [themable EXCEPT ![w] = ThemableInit(preset, kwarg, app)]
    /\ last' = Done("themable", w, preset, kwarg,
                    IF ThemableInit(preset, kwarg, app).state = "ValueError"
                    THEN "ValueError" ELSE NoExc, 0, 0, FALSE)
    /\ UNCHANGED <<density, life, widgets, shadow_groups, app, theme_cls, clock>>

\* ------------------------------------------------------------------- inputs
GroupNames == {"global", "", "A"}

ShadowPositions == {<<0, 0>>, <<Px(3), -Px(3)>>}

\* --------------------------------------------------- registry specification
\* Widgets of one class come and go, change group and are driven by the two
\* bulk operations.
InitWidgets ==
    /\ life = [w \in Widgets |-> "unborn"]
    /\ widgets = [w \in Widgets |-> Defaults]
    /\ shadow_groups = <<[name |-> "global", refs |-> <<>>]>>
    /\ last = Done("start", 0, "", 0, NoExc, 0, 0, FALSE)

\* ThemeManager.__init__ has scheduled set_colors for the next frame.
InitThemeManager ==
    /\ app = "none"
    /\ theme_cls = ThemeDefaults
    /\ clock = <<"set_colors">>
    /\ themable = [w \in Widgets |-> NoThemable]

Init == density = 100 /\ InitWidgets /\ InitThemeManager

Next ==
    \E w \in Widgets :
        \/ Construct(w, "Rectangular")
        \/ \E g \in GroupNames : SetShadowGroup(w, g)
        \/ CallOnShadowGroup(w)
        \/ Collect(w)
        \/ \E p \in ShadowPositions : force_shadow_pos(w, p)
        \/ \E p \in ShadowPositions :
               update_group_property(w, "shadow_pos", p)

Spec == Init /\ [][Next]_vars

\* ------------------------------------------------ shadow state specification
\* One widget, of the base class or of a drawing subclass, on a display of
\* density 1 or 1.5, whose geometry, elevation, offsets and disabled flag
\* are assigned in any order, before and after shadow_preset has run.
Densities == {100, 150}

ShadowClasses == {"Common", "Rectangular"}

ShadowInputs ==
    {<<"elevation", v>> : v \in {0, 250}}
    \cup {<<"disabled", b>> : b \in BOOLEAN}
    \cup {<<"pos", p>> : p \in {<<0, 0>>, <<Px(10), Px(20)>>}}
    \cup {<<"size", z>> : z \in {<<Px(100), Px(100)>>, <<1050, Px(20)>>}}
    \cup {<<"shadow_pos", p>> : p \in ShadowPositions}
    \cup {<<"hard_shadow_offset", v>> : v \in {0, Px(2)}}

InitShadow == density \in Densities /\ InitWidgets /\ InitThemeManager

NextShadow ==
    \/ \E cls \in ShadowClasses : Construct(1, cls)
    \/ ShadowPreset(1)
    \/ \E in \in ShadowInputs : Assign(1, in[1], in[2])

SpecShadow == InitShadow /\ [][NextShadow]_vars

\* ------------------------------------------------ shadow colour specification
\* Widgets of one group whose shadow colours are assigned through the alpha
\* accessors, directly, and through update_group_property.
Alphas == {-50, 30, 250}

Colours == {<<100, 0, 0, 500>>}

ColourInputs ==
    {<<"_soft_shadow_a", v>> : v \in Alphas}
    \cup {<<"_hard_shadow_a", v>> : v \in Alphas}
    \cup {<<"soft_shadow_cl", c>> : c \in Colours}
    \cup {<<"hard_shadow_cl", c>> : c \in Colours}

ColourWidgets == {1, 2}

NextColour ==
    \E w \in ColourWidgets :
        \/ Construct(w, "Rectangular")
        \/ \E in \in ColourInputs : Assign(w, in[1], in[2])
        \/ \E in \in ColourInputs : update_group_property(w, in[1], in[2])

SpecColour == Init /\ [][NextColour]_vars

\* ------------------------------------------------------ radius specification
\* One rounded-rectangle widget whose radius, size and elevation are assigned.
Radii ==
    {<<0>>, <<Px(5)>>, <<550>>, <<Px(10), Px(3)>>, <<700, 870, 150, 300>>,
     <<Px(1), Px(2), Px(3)>>}

RadiusInputs ==
    {<<"radius", r>> : r \in Radii}
    \cup {<<"elevation", v>> : v \in {0, 250}}
    \cup {<<"size", z>> : z \in {<<Px(100), Px(100)>>, <<1050, Px(20)>>}}

NextRadius ==
    \/ Construct(1, "RoundedRectangular")
    \/ ShadowPreset(1)
    \/ \E in \in RadiusInputs : Assign(1, in[1], in[2])

SpecRadius == InitShadow /\ [][NextRadius]_vars

\* ------------------------------------------------- draw hook specification
\* One widget of the base class or of any of the three drawing subclasses,
\* whose elevation (negative values included), position and disabled flag are
\* assigned before and after shadow_preset has run.
HookClasses == {"Common", "Rectangular", "Circular", "RoundedRectangular"}

HookInputs ==
    {<<"elevation", v>> : v \in {-Px(1), 0, 250}}
    \cup {<<"disabled", b>> : b \in BOOLEAN}
    \cup {<<"pos", p>> : p \in {<<0, 0>>, <<Px(10), Px(20)>>}}

NextHook ==
    \/ \E cls \in HookClasses : Construct(1, cls)
    \/ ShadowPreset(1)
    \/ \E in \in HookInputs : Assign(1, in[1], in[2])

SpecHook == InitShadow /\ [][NextHook]_vars

\* ---------------------------------------------------- theme specification
\* One theme manager whose four inputs are assigned in any order between
\* the frames of the Clock, with and without a running application.

ThemeInputs ==
    {<<"theme_style", v>> : v \in {"Light", "Dark"}}
    \cup {<<"primary_palette", v>> : v \in {"Red", "Blue"}}
    \cup {<<"dynamic_color", v>> : v \in BOOLEAN}
    \cup {<<"path_to_wallpaper", v>> : v \in {"", "wall.png", "broken.png"}}

NextTheme ==
    \/ \E in \in ThemeInputs : ThemeAssign(in[1], in[2])
    \/ SwitchTheme
    \/ ClockTick
    \/ \E kind \in {"none", "md"} : RunApp(kind)

SpecTheme == Init /\ [][NextTheme]_vars

\* The same under a Clock that keeps running frames, so that a scheduled
\* callback is eventually fired; the images are ones that can be processed.
LiveInputs ==
    {<<"theme_style", v>> : v \in {"Light", "Dark"}}
    \cup {<<"primary_palette", v>> : v \in {"Red"}}
    \cup {<<"dynamic_color", v>> : v \in BOOLEAN}
    \cup {<<"path_to_wallpaper", v>> : v \in {"", "wall.png"}}

NextThemeLive ==
    \/ \E in \in LiveInputs : ThemeAssign(in[1], in[2])
    \/ SwitchTheme
    \/ ClockTick
    \/ RunApp("md")

SpecThemeLive == Init /\ [][NextThemeLive]_vars /\ WF_vars(ClockTick)

\* ------------------------------------------------- themable specification
\* Themable widgets constructed with and without a preset theme_cls while
\* applications of the three kinds start and stop.
AppKinds == {"none", "plain", "md"}

NextThemable ==
    \/ \E kind \in AppKinds : RunApp(kind)
    \/ \E w \in Widgets : \E preset, kwarg \in {None, "own"} :
           ThemableConstruct(w, preset, kwarg)

SpecThemable == Init /\ [][NextThemable]_vars

\* --------------------------------------------------- animation specification
\* One widget whose configured elevation, current elevation _elevation (the
\* property an animation drives) and disabled flag are assigned in any
\* order, before and after shadow_preset has run.
AnimInputs ==
    {<<"elevation", v>> : v \in {0, 250, Px(5)}}
    \cup {<<"_elevation", v>> : v \in {0, Px(5), Px(8)}}
    \cup {<<"disabled", b>> : b \in BOOLEAN}

NextAnim ==
    \/ \E cls \in ShadowClasses : Construct(1, cls)
    \/ ShadowPreset(1)
    \/ \E in \in AnimInputs : Assign(1, in[1], in[2])

SpecAnim == InitShadow /\ [][NextAnim]_vars

\* ------------------------------------------------------------------- claims
RefsTo(w) == {wk \in AllRefs(shadow_groups) : wk.w = w}

MemberRefs(w) ==
    shadow_groups[GroupIndex(shadow_groups, widgets[w].shadow_group)].refs

\* C1: once a registered widget has been garbage-collected, no group list of
\* the registry holds a (dead) reference to it, whichever group held it and
\* whatever the other groups contain.
C1_FinalizerRemovesDeadRef ==
    last.op = "collect" => RefsTo(last.w) = {}

\* C2: every live widget has exactly one weak reference in the whole
\* registry, and it is in the list of the group its shadow_group names.
C2_ExactlyOneGroup ==
    \A w \in Widgets :
        life[w] = "live" =>
            /\ Cardinality(RefsTo(w)) = 1
            /\ \E i \in 1..Len(MemberRefs(w)) : MemberRefs(w)[i].w = w

\* C3: a bulk operation whose group list held a dead reference completes
\* without raising, leaves no dead reference in that list, and gives every
\* live member of the group the new value.
C3_BulkSkipsDeadRefs ==
    (last.op \in {"force_shadow_pos", "update_group_property"} /\ last.dead) =>
        /\ last.exc = NoExc
        /\ \A i \in 1..Len(MemberRefs(last.w)) :
               /\ ~IsDead(MemberRefs(last.w)[i])
               /\ widgets[MemberRefs(last.w)[i].w].shadow_pos = last.arg

\* The widget the last operation was called on, while it is alive.
Acted(w) == life[w] = "live" /\ last.w = w

IsPlaceholder(texture) ==
    texture.kind = "placeholder" /\ texture.size = <<400, 400>>

\* C4: whenever _update_shadow has run with _elevation zero, both textures
\* are the 4x4 transparent placeholder and no draw hook was invoked; both
\* textures are that placeholder right after construction.
C4_ZeroElevationPlaceholder ==
    \A w \in Widgets :
        Acted(w) =>
            /\ last.op = "__init__" =>
                   /\ IsPlaceholder(widgets[w].hard_shadow_texture)
                   /\ IsPlaceholder(widgets[w]._soft_shadow_texture)
            /\ (last.runs > 0 /\ widgets[w]._elevation = 0) =>
                   /\ IsPlaceholder(widgets[w].hard_shadow_texture)
                   /\ IsPlaceholder(widgets[w]._soft_shadow_texture)
                   /\ last.draws = 0

\* C4 witness: a widget whose shadow had been drawn has its elevation set
\* back to zero and _update_shadow has run for it.
C4_Witness ==
    /\ Acted(1)
    /\ last.name \in {"elevation", "disabled"}
    /\ last.runs > 0
    /\ widgets[1]._elevation = 0
    /\ widgets[1].hard_shadow_size # <<0, 0>>

\* The whole number of pixels n that int() makes of the non-negative v.
Floor(v) == v - (v % 100)

\* C5 as stated: after _update_shadow has run to its end with _elevation > 0,
\* hard_shadow_size is the widget size plus twice the integer dp-scaled
\* hard_shadow_offset, soft_shadow_size is the widget size plus twice the
\* dp-scaled elevation plus twice the dp-scaled soft_shadow_offset, and
\* neither is smaller than the widget size.
C5_SizesExact ==
    \A w \in Widgets :
        (Acted(w) /\ last.runs > 0 /\ last.exc = NoExc
                  /\ widgets[w]._elevation > 0) =>
            \A i \in {1, 2} :
                /\ widgets[w].hard_shadow_size[i] =
                       widgets[w].size[i]
                       + 2 * Floor(dp(widgets[w].hard_shadow_offset))
                /\ widgets[w].soft_shadow_size[i] =
                       widgets[w].size[i] + 2 * dp(widgets[w]._elevation)
                       + 2 * dp(widgets[w].soft_shadow_offset)
                /\ widgets[w].hard_shadow_size[i] >= widgets[w].size[i]
                /\ widgets[w].soft_shadow_size[i] >= widgets[w].size[i]

\* C5 as amended: the two sizes are those sums cut down to whole pixels, so
\* neither is smaller than the whole-pixel part of the widget size.
C5_SizesTruncated ==
    \A w \in Widgets :
        (Acted(w) /\ last.runs > 0 /\ last.exc = NoExc
                  /\ widgets[w]._elevation > 0) =>
            \A i \in {1, 2} :
                /\ widgets[w].hard_shadow_size[i] =
                       Floor(widgets[w].size[i]
                             + 2 * Floor(dp(widgets[w].hard_shadow_offset)))
                /\ widgets[w].soft_shadow_size[i] =
                       Floor(widgets[w].size[i] + 2 * dp(widgets[w]._elevation)
                             + 2 * dp(widgets[w].soft_shadow_offset))
                /\ widgets[w].hard_shadow_size[i] >= Floor(widgets[w].size[i])
                /\ widgets[w].soft_shadow_size[i] >= Floor(widgets[w].size[i])

\* C5 witness: a widget 10.5 wide with hard_shadow_offset 0 whose shadow has
\* been rebuilt: the hard shadow is 10 wide, narrower than the widget.
C5_Witness ==
    /\ Acted(1)
    /\ last.runs > 0 /\ last.exc = NoExc
    /\ widgets[1]._elevation > 0
    /\ widgets[1].size = <<1050, 2000>>
    /\ widgets[1].hard_shadow_offset = 0
    /\ widgets[1].hard_shadow_size = <<1000, 2000>>

\* C6: an assignment of v through an alpha accessor stores min(1, max(0, v))
\* as the last component of that shadow's colour, changes no other component
\* and not the other shadow's colour, and the accessor then reads that value.
C6_AlphaAccessorClamps ==
    [][\A w \in Widgets :
          (last'.op = "assign" /\ last'.w = w
           /\ last'.name \in {"_soft_shadow_a", "_hard_shadow_a"}) =>
              IF last'.name = "_soft_shadow_a"
              THEN /\ widgets'[w].soft_shadow_cl =
                          <<widgets[w].soft_shadow_cl[1],
                            widgets[w].soft_shadow_cl[2],
                            widgets[w].soft_shadow_cl[3],
                            Min(100, Max(0, last'.arg))>>
                   /\ widgets'[w].hard_shadow_cl = widgets[w].hard_shadow_cl
                   /\ _get_soft_shadow_a(widgets'[w]) =
                          Min(100, Max(0, last'.arg))
              ELSE /\ widgets'[w].hard_shadow_cl =
                          <<widgets[w].hard_shadow_cl[1],
                            widgets[w].hard_shadow_cl[2],
                            widgets[w].hard_shadow_cl[3],
                            Min(100, Max(0, last'.arg))>>
                   /\ widgets'[w].soft_shadow_cl = widgets[w].soft_shadow_cl
                   /\ _get_hard_shadow_a(widgets'[w]) =
                          Min(100, Max(0, last'.arg))
      ]_vars

\* C6 witness: 2.5 assigned to _soft_shadow_a of a widget whose soft colour
\* was red: the colour is red with alpha 1.
C6_Witness ==
    /\ Acted(1)
    /\ last.op = "assign" /\ last.name = "_soft_shadow_a" /\ last.arg = 250
    /\ widgets[1].soft_shadow_cl = <<100, 0, 0, 100>>

AlphaInRange(s) ==
    /\ s.soft_shadow_cl[4] >= 0 /\ s.soft_shadow_cl[4] <= 100
    /\ s.hard_shadow_cl[4] >= 0 /\ s.hard_shadow_cl[4] <= 100

\* C7 as stated: in every reachable state the alpha of both shadow colours
\* of every widget lies in [0, 1].
C7_AlphaAlwaysInRange ==
    \A w \in Widgets : life[w] = "live" => AlphaInRange(widgets[w])

\* C7 as amended: the alphas are in [0, 1] after construction and stay there
\* across every operation other than an assignment of a whole colour list to
\* soft_shadow_cl or hard_shadow_cl (made directly or by
\* update_group_property), which stores the list as given.
C7_AlphaInRangeUnlessListAssigned ==
    [][\A w \in Widgets :
          (/\ life'[w] = "live"
           /\ life[w] = "live" => AlphaInRange(widgets[w])
           /\ last'.name \notin {"soft_shadow_cl", "hard_shadow_cl"}) =>
              AlphaInRange(widgets'[w])
      ]_vars

\* C7 witness: update_group_property has set _hard_shadow_a to 2.5 on a
\* group of two widgets, and both hold alpha 1.
C7_Witness ==
    /\ last.op = "update_group_property"
    /\ last.name = "_hard_shadow_a" /\ last.arg = 250
    /\ \A w \in {1, 2} :
           /\ life[w] = "live"
           /\ widgets[w].hard_shadow_cl[4] = 100
           /\ AlphaInRange(widgets[w])

\* C8: a change of disabled leaves the configured elevation alone; to True
\* it sets _elevation to 0 and both textures to the placeholder; back to
\* False it sets _elevation to the configured elevation and, the draw hook
\* being implemented, rebuilds both textures for it.
C8_DisableHidesEnableRestores ==
    [][\A w \in Widgets :
          (/\ life[w] = "live" /\ life'[w] = "live"
           /\ widgets[w].disabled # widgets'[w].disabled) =>
              /\ widgets'[w].elevation = widgets[w].elevation
              /\ widgets'[w].disabled =>
                     /\ widgets'[w]._elevation = 0
                     /\ IsPlaceholder(widgets'[w].hard_shadow_texture)
                     /\ IsPlaceholder(widgets'[w]._soft_shadow_texture)
              /\ ~widgets'[w].disabled =>
                     /\ widgets'[w]._elevation = widgets'[w].elevation
                     /\ (last'.exc = NoExc /\ widgets'[w].elevation = 0) =>
                            /\ IsPlaceholder(widgets'[w].hard_shadow_texture)
                            /\ IsPlaceholder(widgets'[w]._soft_shadow_texture)
                     /\ (last'.exc = NoExc /\ widgets'[w].elevation > 0) =>
                            /\ last'.draws >= 2
                            /\ widgets'[w].hard_shadow_texture.kind = widgets'[w].cls
                            /\ widgets'[w]._soft_shadow_texture.kind = widgets'[w].cls
                            /\ widgets'[w]._soft_shadow_texture.size[1] =
                                   Floor(widgets'[w].size[1]
                                         + 2 * dp(widgets'[w].elevation)
                                         + 2 * dp(widgets'[w].soft_shadow_offset))
      ]_vars

\* C8 witness: a disabled widget of elevation 2.5 has been enabled again
\* and its shadow is drawn.
C8_Witness ==
    /\ Acted(1)
    /\ last.name = "disabled" /\ last.arg = FALSE /\ last.runs > 0
    /\ widgets[1]._elevation = 250
    /\ widgets[1]._soft_shadow_texture.kind = "Rectangular"

\* C9: after a handled change of pos, size or elevation, with no shadow_pos
\* override, hard_shadow_pos is [x - dp(hard_shadow_offset), y - dp(..)] and
\* soft_shadow_pos is [x - _elevation - dp(soft_shadow_offset),
\* y - 0.4 * _elevation - _elevation - dp(soft_shadow_offset)].
C9_ShadowPosFollowsElevation ==
    \A w \in Widgets :
        (/\ Acted(w)
         /\ last.op = "assign" /\ last.name \in {"pos", "size", "elevation"}
         /\ last.runs > 0 /\ last.exc = NoExc
         /\ widgets[w].shadow_pos = <<0, 0>>) =>
            /\ widgets[w].hard_shadow_pos =
                   <<widgets[w].x - dp(widgets[w].hard_shadow_offset),
                     widgets[w].y - dp(widgets[w].hard_shadow_offset)>>
            /\ widgets[w].soft_shadow_pos =
                   <<widgets[w].x - widgets[w]._elevation
                         - dp(widgets[w].soft_shadow_offset),
                     widgets[w].y - (4 * widgets[w]._elevation) \div 10
                         - widgets[w]._elevation
                         - dp(widgets[w].soft_shadow_offset)>>

Ran(callback) ==
    /\ last.op \in {"theme_assign", "switch_theme", "tick"}
    /\ \E i \in 1..Len(theme_cls.ran) : theme_cls.ran[i] = callback

\* The published state is the complete scheme of theme for the current
\* theme_style: the role list, one colour per role, disabledTextColor.
Published(theme) ==
    /\ "schemes" \in theme.keys
    /\ theme_cls.schemes_name_colors = Roles
    /\ \A k \in 1..Len(Roles) :
           theme_cls.colors[k] =
               Rgba(SchemeColor(theme.seed, StyleLower(theme_cls.theme_style), k))
    /\ theme_cls.disabledTextColor = _get_disabled_hint_text_color(theme_cls)

\* C11: whenever set_colors has run with dynamic_color False it has not
\* raised, current_color_theme is the theme of the named primary_palette,
\* or of the default seed 0xFF4285F4 when no palette is set, and the roles
\* and role colours of the active style of that theme are published.
C11_StaticSetColorsPublishes ==
    (Ran("set_colors") /\ ~theme_cls.dynamic_color) =>
        /\ last.exc = NoExc
        /\ theme_cls.current_color_theme =
               ThemeFromSourceColor(IF theme_cls.primary_palette = None
                                    THEN DefaultSeed
                                    ELSE HexColormap(theme_cls.primary_palette))
        /\ Published(theme_cls.current_color_theme)

\* C12: whenever set_colors has run with dynamic_color True in a running
\* application it has not raised, and a complete scheme is published: that
\* of the wallpaper image, or, extraction having failed, that of the
\* primary_palette ("Blue" when none was configured).
C12_DynamicSetColorsFallsBack ==
    (Ran("set_colors") /\ theme_cls.dynamic_color /\ app # "none") =>
        /\ last.exc = NoExc
        /\ Published(theme_cls.current_color_theme)
        /\ \/ theme_cls.current_color_theme.seed \in
                  {ImageSeed("system.png"), ImageSeed("wall.png")}
           \/ /\ theme_cls.primary_palette # None
              /\ theme_cls.current_color_theme.seed =
                     HexColormap(theme_cls.primary_palette)

\* C13: whenever the Clock has fired update_theme_colors, whatever
\* current_color_theme held, the call has not raised and the complete role
\* list and role colours of the active style are published.
C13_StyleChangeRepublishes ==
    (last.op = "tick" /\ last.name = "update_theme_colors") =>
        /\ last.exc = NoExc
        /\ theme_cls.schemes_name_colors = Roles
        /\ Published(theme_cls.current_color_theme)

\* C14: once colours have been published, the published role colours are
\* those of one scheme of current_color_theme, the one the current
\* theme_style selects.
C14_OneActiveScheme ==
    theme_cls.schemes_name_colors # <<>> =>
        \A k \in 1..Len(Roles) :
            theme_cls.colors[k] =
                Rgba(SchemeColor(theme_cls.current_color_theme.seed,
                                 StyleLower(theme_cls.theme_style), k))

\* The callbacks scheduled by a step: what the step appended to the Clock.
Scheduled(callback) ==
    /\ clock' # <<>>
    /\ clock'[Len(clock')] = callback
    /\ Len(clock') = Len(clock) + 1

RanNext(callback) ==
    \E i \in 1..Len(theme_cls'.ran) : theme_cls'.ran[i] = callback

\* C15 as stated: every change of theme_style schedules update_theme_colors,
\* every change of primary_palette schedules set_colors, and every change
\* of dynamic_color or of path_to_wallpaper runs set_colors, whatever the
\* other inputs are.
C15_EveryChangeRecomputes ==
    [][last'.op \in {"theme_assign", "switch_theme"} =>
          /\ theme_cls'.theme_style # theme_cls.theme_style =>
                 Scheduled("update_theme_colors")
          /\ (last'.name = "primary_palette"
              /\ theme_cls'.primary_palette # theme_cls.primary_palette) =>
                 Scheduled("set_colors")
          /\ theme_cls'.dynamic_color # theme_cls.dynamic_color =>
                 RanNext("set_colors")
          /\ theme_cls'.path_to_wallpaper # theme_cls.path_to_wallpaper =>
                 RanNext("set_colors")
      ]_vars

\* C15 as amended: as above, except that a change of path_to_wallpaper runs
\* set_colors only while dynamic_color is True and runs nothing otherwise;
\* and every callback scheduled on the Clock is fired.
C15_ChangeRecomputesWhenDynamic ==
    /\ [][last'.op \in {"theme_assign", "switch_theme"} =>
             /\ theme_cls'.theme_style # theme_cls.theme_style =>
                    Scheduled("update_theme_colors")
             /\ (last'.name = "primary_palette"
                 /\ theme_cls'.primary_palette # theme_cls.primary_palette) =>
                    Scheduled("set_colors")
             /\ theme_cls'.dynamic_color # theme_cls.dynamic_color =>
                    RanNext("set_colors")
             /\ theme_cls'.path_to_wallpaper # theme_cls.path_to_wallpaper =>
                    (RanNext("set_colors") <=> theme_cls.dynamic_color)
         ]_vars
    /\ \A callback \in {"set_colors", "update_theme_colors"} :
           (clock # <<>> /\ Head(clock) = callback)
               ~> (last.op = "tick" /\ last.name = callback)

\* C15 witness: path_to_wallpaper has been changed while dynamic_color is
\* True, and set_colors has run for it.
C15_Witness ==
    /\ last.op = "theme_assign" /\ last.name = "path_to_wallpaper"
    /\ last.arg = "wall.png"
    /\ theme_cls.dynamic_color
    /\ Ran("set_colors")
    /\ theme_cls.current_color_theme.seed = ImageSeed("wall.png")

\* C16: constructing a themable widget with no preset theme_cls raises
\* ValueError and leaves theme_cls unset when no app is running or the
\* running app has no theme_cls property, and takes the theme_cls of a
\* running MDApp otherwise; a preset theme_cls is kept, whatever the app. A
\* theme_cls keyword argument, applied after the check, replaces either.
C16_ThemableNeedsApp ==
    \A w \in Widgets :
        (last.op = "themable" /\ last.w = w) =>
            /\ (last.name = None /\ app \in {"none", "plain"}) =>
                   /\ last.exc = "ValueError"
                   /\ themable[w].theme_cls = None
            /\ (last.name = None /\ app = "md") =>
                   /\ last.exc = NoExc
                   /\ themable[w].theme_cls =
                          IF last.arg = None THEN "app.theme_cls" ELSE last.arg
            /\ last.name # None =>
                   /\ last.exc = NoExc
                   /\ themable[w].theme_cls =
                          IF last.arg = None THEN last.name ELSE last.arg

\* C16 witness: a widget without preset theme_cls has been constructed
\* while the running app has no theme_cls property; ValueError was raised.
C16_Witness ==
    /\ last.op = "themable" /\ last.name = None /\ last.arg = None
    /\ app = "plain"
    /\ last.exc = "ValueError"
    /\ themable[last.w].theme_cls = None

\* C17: a widget of the base class raises NotImplementedError in exactly the
\* operations that run _update_shadow with _elevation > 0; a widget of the
\* Rectangular, Circular or RoundedRectangular class never raises it and has
\* its own shape drawn into both textures.
C17_BaseHookRaises ==
    \A w \in Widgets :
        Acted(w) =>
            /\ (widgets[w].cls = "Common" /\ last.runs > 0) =>
                   (last.exc = "NotImplementedError" <=> widgets[w]._elevation > 0)
            /\ (widgets[w].cls = "Common" /\ last.runs = 0) =>
                   last.exc # "NotImplementedError"
            /\ widgets[w].cls # "Common" =>
                   /\ last.exc # "NotImplementedError"
                   /\ (last.runs > 0 /\ widgets[w]._elevation > 0) =>
                          /\ last.draws = 2 * last.runs
                          /\ widgets[w].hard_shadow_texture.kind = widgets[w].cls
                          /\ widgets[w]._soft_shadow_texture.kind = widgets[w].cls

\* C17 witness: a base-class widget of elevation 2.5 has been moved, and the
\* shadow update raised NotImplementedError.
C17_Witness ==
    /\ Acted(1)
    /\ widgets[1].cls = "Common"
    /\ last.name = "pos" /\ last.runs > 0
    /\ widgets[1]._elevation = 250
    /\ last.exc = "NotImplementedError"

\* The reference list of group g, empty when the registry has no such group.
GroupRefs(reg, g) == IF HasGroup(reg, g) THEN reg[GroupIndex(reg, g)].refs ELSE <<>>

OtherRefs(refs, w) == SelectSeq(refs, LAMBDA wk : wk.w # w)

Lists(refs, w) == \E i \in 1..Len(refs) : refs[i].w = w

\* C18: an assignment that changes the shadow_group of widget w from A to B
\* leaves w listed in B and not in A, and leaves the references to every
\* other widget, in every group, as they were and in the same order.
C18_GroupChangeMovesOnlyThatEntry ==
    [][(last'.op = "assign" /\ last'.name = "shadow_group") =>
          /\ Lists(GroupRefs(shadow_groups', last'.arg), last'.w)
          /\ ~Lists(GroupRefs(shadow_groups', widgets[last'.w].shadow_group),
                    last'.w)
          /\ \A g \in GroupNames :
                 OtherRefs(GroupRefs(shadow_groups', g), last'.w) =
                     OtherRefs(GroupRefs(shadow_groups, g), last'.w)
      ]_vars

\* C19: the elevation of every widget is non-negative after every step, and
\* an assignment of a negative elevation raises ValueError and changes no
\* property of any widget.
C19_ElevationNonNegative ==
    [][/\ \A w \in Widgets : life'[w] = "live" => widgets'[w].elevation >= 0
       /\ (last'.op = "assign" /\ last'.name = "elevation" /\ last'.arg < 0) =>
              /\ last'.exc = "ValueError"
              /\ last'.runs = 0
              /\ widgets' = widgets
      ]_vars

\* C19 witness: -1 has been assigned to the elevation of a widget of
\* elevation 2.5 whose shadow is drawn; the assignment raised ValueError.
C19_Witness ==
    /\ Acted(1)
    /\ last.op = "assign" /\ last.name = "elevation" /\ last.arg = -Px(1)
    /\ last.exc = "ValueError"
    /\ widgets[1].elevation = 250 /\ widgets[1]._elevation = 250
    /\ widgets[1]._soft_shadow_texture.kind = "Rectangular"

Truncated(radius) ==
    <<int(radius[1]), int(radius[2]), int(radius[3]), int(radius[4])>>

\* C20: what the rounded-rectangle hook has drawn is what it draws for the
\* integer parts of the four radii: every coordinate derived from radius,
\* on the equal-radii and on the unequal-radii path, uses the truncated value.
C20_RadiiTruncated ==
    \A w \in Widgets :
        (Acted(w) /\ widgets[w].cls = "RoundedRectangular" /\ last.draws > 0) =>
            widgets[w].context =
                RoundedRectangularDraw(Truncated(widgets[w].radius),
                                       widgets[w]._soft_shadow_texture.origin,
                                       widgets[w]._soft_shadow_texture.end)

\* C21: after the handling of a change of size, position, radius or
\* _elevation has completed, _shadow_origin is the centre of the soft-shadow
\* rectangle as it then stands: soft_shadow_pos + soft_shadow_size / 2.
C21_OriginIsSoftShadowCentre ==
    \A w \in Widgets :
        (/\ Acted(w)
         /\ last.op = "assign"
         /\ last.name \in {"pos", "size", "radius", "elevation", "_elevation"}
         /\ last.runs > 0 /\ last.exc = NoExc) =>
            widgets[w]._shadow_origin =
                <<widgets[w].soft_shadow_pos[1]
                      + widgets[w].soft_shadow_size[1] \div 2,
                  widgets[w].soft_shadow_pos[2]
                      + widgets[w].soft_shadow_size[2] \div 2>>

\* C22: while a widget is disabled its current elevation _elevation is 0,
\* also after the configured elevation was assigned during that period.
C22_DisabledKeepsZeroElevation ==
    \A w \in Widgets :
        (life[w] = "live" /\ widgets[w].disabled) => widgets[w]._elevation = 0

\* C25: every assignment that changes elevation sets _elevation to the same
\* value, an assignment to _elevation never changes elevation, and after
\* any accepted assignment to elevation _elevation is the configured value.
C25_ElevationAssignmentRestores ==
    [][\A w \in Widgets :
          (life[w] = "live" /\ life'[w] = "live" /\ last'.w = w
           /\ last'.op = "assign") =>
              /\ widgets'[w].elevation # widgets[w].elevation =>
                     widgets'[w]._elevation = widgets'[w].elevation
              /\ last'.name = "_elevation" =>
                     widgets'[w].elevation = widgets[w].elevation
              /\ (last'.name = "elevation" /\ last'.arg >= 0) =>
                     widgets'[w]._elevation = widgets'[w].elevation
      ]_vars

\* C25 (amended): every assignment that changes elevation sets _elevation
\* to the same value, an assignment to _elevation never changes elevation,
\* and an assignment of the value elevation already holds changes neither,
\* so that it does not bring _elevation back after an animation.
C25_ChangingAssignmentRestores ==
    [][\A w \in Widgets :
          (life[w] = "live" /\ life'[w] = "live" /\ last'.w = w
           /\ last'.op = "assign") =>
              /\ widgets'[w].elevation # widgets[w].elevation =>
                     widgets'[w]._elevation = widgets'[w].elevation
              /\ last'.name = "_elevation" =>
                     widgets'[w].elevation = widgets[w].elevation
              /\ (last'.name = "elevation"
                  /\ last'.arg >= 0 /\ last'.arg # widgets[w].elevation) =>
                     /\ widgets'[w].elevation = last'.arg
                     /\ widgets'[w]._elevation = last'.arg
              /\ (last'.name = "elevation"
                  /\ last'.arg = widgets[w].elevation) =>
                     /\ widgets'[w].elevation = widgets[w].elevation
                     /\ widgets'[w]._elevation = widgets[w]._elevation
      ]_vars

\* C25 witness: elevation has been assigned a new value while _elevation
\* stood at a value an animation had given it, and _elevation followed.
C25_Witness ==
    /\ Acted(1)
    /\ last.op = "assign" /\ last.name = "elevation" /\ last.arg = 250
    /\ last.runs > 0 /\ last.exc = NoExc
    /\ widgets[1].elevation = 250 /\ widgets[1]._elevation = 250
    /\ widgets[1]._soft_shadow_texture.kind = "Rectangular"

\* The soft_shadow_pos that _update_shadow_pos computes from the offset off.
SoftPosFrom(s, off) ==
    <<s.x + off[1] - s._elevation - dp(s.soft_shadow_offset),
      s.y + off[2] - s._elevation - dp(s.soft_shadow_offset)>>

\* C26: while shadow_pos differs from [0, 0] no operation modifies
\* _shadow_pos and every shadow update computes soft_shadow_pos from
\* shadow_pos alone; an assignment of [0, 0] to shadow_pos makes
\* soft_shadow_pos use the computed _shadow_pos again.
C26_OverrideFreezesComputedOffset ==
    [][\A w \in Widgets :
          (life[w] = "live" /\ life'[w] = "live" /\ last'.w = w
           /\ last'.op \in {"assign", "shadow_preset"}) =>
              /\ widgets'[w].shadow_pos # <<0, 0>> =>
                     widgets'[w]._shadow_pos = widgets[w]._shadow_pos
              /\ (/\ widgets'[w].shadow_pos # <<0, 0>>
                  /\ \/ last'.runs > 0
                     \/ widgets'[w].shadow_pos # widgets[w].shadow_pos) =>
                     widgets'[w].soft_shadow_pos =
                         SoftPosFrom(widgets'[w], widgets'[w].shadow_pos)
              /\ (/\ widgets'[w].shadow_pos = <<0, 0>>
                  /\ widgets[w].shadow_pos # <<0, 0>>) =>
                     /\ widgets'[w]._shadow_pos = widgets[w]._shadow_pos
                     /\ widgets'[w].soft_shadow_pos =
                            SoftPosFrom(widgets'[w], widgets'[w]._shadow_pos)
      ]_vars

\* C26 witness: under the override [3, -3] the elevation has been raised to
\* 2.5 and the shadow redrawn, the computed offset still being [0, 0].
C26_Witness ==
    /\ Acted(1)
    /\ last.op = "assign" /\ last.name = "elevation" /\ last.arg = 250
    /\ last.runs > 0 /\ last.draws = 2
    /\ widgets[1].shadow_pos = <<Px(3), -Px(3)>>
    /\ widgets[1]._shadow_pos = <<0, 0>>
    /\ widgets[1]._elevation = 250

\* |a - b| is at most one pixel.
WithinOnePixel(a, b) == a - b <= Px(1) /\ b - a <= Px(1)

\* C28: whenever the soft shadow has been drawn, the region [origin, end]
\* drawn into its texture has the widget's extents, size[0] by size[1]
\* pixels, and its margin to the texture edge is on each side half of what
\* soft_shadow_size exceeds the widget size by; both up to the one pixel
\* that the int() truncations of the code can take.
C28_SoftShapeHasWidgetExtents ==
    \A w \in Widgets :
        (/\ Acted(w)
         /\ last.runs > 0 /\ last.exc = NoExc
         /\ widgets[w]._elevation > 0) =>
            \A i \in 1..2 :
                /\ WithinOnePixel(
                       widgets[w]._soft_shadow_texture.end[i]
                           - widgets[w]._soft_shadow_texture.origin[i] + Px(1),
                       int(widgets[w].size[i]))
                /\ WithinOnePixel(
                       2 * widgets[w]._soft_shadow_texture.origin[i],
                       widgets[w].soft_shadow_size[i] - int(widgets[w].size[i]))

\* The r_i by r_i corner squares of the box [origin, end], in the order of
\* the radius list: the corners at (origin, origin), (end, origin),
\* (end, end) and (origin, end).
CornerSquares(radius, origin, end) ==
    <<<<origin[1], origin[2], origin[1] + radius[1], origin[2] + radius[1]>>,
      <<end[1] - radius[2], origin[2], end[1], origin[2] + radius[2]>>,
      <<end[1] - radius[3], end[2] - radius[3], end[1], end[2]>>,
      <<origin[1], end[2] - radius[4], origin[1] + radius[4], end[2]>>>>

\* Two [x0, y0, x1, y1] boxes share an area.
Overlap(a, b) == a[1] < b[3] /\ b[1] < a[3] /\ a[2] < b[4] /\ b[2] < a[4]

RectangleFills(context) ==
    {context[k].xy : k \in {j \in 1..Len(context) : context[j].kind = "rectangle"}}

ShorterSide(origin, end) == Min(end[1] - origin[1], end[2] - origin[2])

\* C29: when the rounded-rectangle hook has drawn into the box
\* [origin, end] with every radius at most half the shorter side of the
\* box, each rectangle fill is well-formed, lies inside the box and
\* overlaps no corner square.
C29_FillsAvoidCornerSquares ==
    \A w \in Widgets :
        (/\ Acted(w)
         /\ widgets[w].cls = "RoundedRectangular"
         /\ last.draws > 0 /\ last.exc = NoExc
         /\ \A i \in 1..4 :
                2 * widgets[w].radius[i]
                    <= ShorterSide(widgets[w]._soft_shadow_texture.origin,
                                   widgets[w]._soft_shadow_texture.end)) =>
            \A f \in RectangleFills(widgets[w].context) :
                /\ f[1] <= f[3] /\ f[2] <= f[4]
                /\ widgets[w]._soft_shadow_texture.origin[1] <= f[1]
                /\ widgets[w]._soft_shadow_texture.origin[2] <= f[2]
                /\ f[3] <= widgets[w]._soft_shadow_texture.end[1]
                /\ f[4] <= widgets[w]._soft_shadow_texture.end[2]
                /\ \A i \in 1..4 :
                       ~Overlap(f, CornerSquares(
                                      widgets[w].radius,
                                      widgets[w]._soft_shadow_texture.origin,
                                      widgets[w]._soft_shadow_texture.end)[i])

\* The live widgets the group list refs holds a reference to.
LiveListed(refs) ==
    {refs[j].w : j \in {k \in 1..Len(refs) : life[refs[k].w] = "live"}}

\* C30: force_shadow_pos(p) and update_group_property("shadow_pos", p),
\* called on widget w, set shadow_pos to p on every live widget of w's
\* shadow group, leave the shadow_pos of the live widgets of every other
\* group alone, and change the group membership of no live widget.
C30_BulkOperationScope ==
    [][\A w \in Widgets :
          (/\ last'.op \in {"force_shadow_pos", "update_group_property"}
           /\ last'.w = w /\ last'.name = "shadow_pos") =>
              /\ \A v \in Widgets :
                     life[v] = "live" =>
                         /\ widgets'[v].shadow_group = widgets[v].shadow_group
                         /\ widgets[v].shadow_group = widgets[w].shadow_group =>
                                widgets'[v].shadow_pos = last'.arg
                         /\ widgets[v].shadow_group # widgets[w].shadow_group =>
                                widgets'[v].shadow_pos = widgets[v].shadow_pos
              /\ Len(shadow_groups') = Len(shadow_groups)
              /\ \A i \in 1..Len(shadow_groups) :
                     /\ shadow_groups'[i].name = shadow_groups[i].name
                     /\ LiveListed(shadow_groups'[i].refs)
                            = LiveListed(shadow_groups[i].refs)
      ]_vars

\* The themes set_colors can derive from the current inputs: with
\* dynamic_color False the theme of the primary_palette (of the default
\* seed when none is set); with dynamic_color True the theme of the
\* wallpaper image or, no wallpaper being obtained, of the palette.
DerivedThemes(tm) ==
    IF ~tm.dynamic_color
    THEN {IF tm.primary_palette = None THEN ThemeFromSourceColor(DefaultSeed)
          ELSE PaletteTheme(tm)}
    ELSE {ThemeFromSourceColor(ImageSeed(GetWallpaper(tm.path_to_wallpaper, "found"))),
          PaletteTheme(PaletteOrBlue(tm))}

\* C23: once no callback is pending, the published role colours and
\* schemes_name_colors are the scheme of current_color_theme for the
\* current theme_style, and current_color_theme is the theme derived from
\* the current primary_palette / dynamic_color inputs.
C23_QuiescentStateIsConsistent ==
    clock = <<>> =>
        /\ Published(theme_cls.current_color_theme)
        /\ theme_cls.current_color_theme \in DerivedThemes(theme_cls)

\* What is left to run: two for every pending callback, one more while
\* primary_palette is unset (its assignment to "Blue" schedules set_colors).
PendingWork == 2 * Len(clock) + (IF theme_cls.primary_palette = None THEN 1 ELSE 0)

\* C24: every callback the Clock fires reduces the pending work, a
\* set_colors that assigns primary_palette = "Blue" re-schedules itself
\* once only, and once the theme inputs are left alone the Clock reaches a
\* state with no pending callback.
C24_RecomputationQuiesces ==
    /\ [][last'.op = "tick" =>
              /\ PendingWork' < PendingWork
              /\ Len(clock') <= Len(clock)
              /\ Len(clock') = Len(clock) =>
                     /\ theme_cls.primary_palette = None
                     /\ theme_cls'.primary_palette = "Blue"
                     /\ clock'[Len(clock')] = "set_colors"]_vars
    /\ <>[][ClockTick]_vars => <>(clock = <<>>)

\* C24 witness: the set_colors that _set_palette_color re-scheduled by
\* assigning primary_palette = "Blue" has run and nothing is pending.
C24_Witness ==
    /\ last.op = "tick" /\ last.name = "set_colors" /\ last.exc = NoExc
    /\ clock = <<>>
    /\ theme_cls.dynamic_color
    /\ theme_cls.primary_palette = "Blue"
    /\ Published(ThemeFromSourceColor(HexColormap("Blue")))

\* C27: a change of path_to_wallpaper while dynamic_color is False runs no
\* recomputation and leaves current_color_theme, schemes_name_colors, the
\* published colours and primary_palette unchanged; while dynamic_color is
\* True it runs set_colors within the assignment.
C27_WallpaperPathOnlyWhenDynamic ==
    [][(/\ last'.op = "theme_assign" /\ last'.name = "path_to_wallpaper"
        /\ theme_cls'.path_to_wallpaper # theme_cls.path_to_wallpaper) =>
           /\ ~theme_cls.dynamic_color =>
                  /\ theme_cls'.ran = <<>>
                  /\ clock' = clock
                  /\ theme_cls'.current_color_theme = theme_cls.current_color_theme
                  /\ theme_cls'.schemes_name_colors = theme_cls.schemes_name_colors
                  /\ theme_cls'.colors = theme_cls.colors
                  /\ theme_cls'.disabledTextColor = theme_cls.disabledTextColor
                  /\ theme_cls'.primary_palette = theme_cls.primary_palette
           /\ theme_cls.dynamic_color => theme_cls'.ran = <<"set_colors">>
      ]_vars

\* C27 witness: with dynamic_color True and an application running, the
\* path has been changed and set_colors has published the image's scheme.
C27_Witness ==
    /\ last.op = "theme_assign" /\ last.name = "path_to_wallpaper"
    /\ last.arg = "wall.png" /\ last.exc = NoExc
    /\ theme_cls.dynamic_color
    /\ theme_cls.ran = <<"set_colors">>
    /\ Published(ThemeFromSourceColor(ImageSeed("wall.png")))

\* C27 witness of the other case: with dynamic_color False the path has
\* been changed after a palette was published, and nothing has run.
C27_WitnessStatic ==
    /\ last.op = "theme_assign" /\ last.name = "path_to_wallpaper"
    /\ last.arg = "wall.png"
    /\ ~theme_cls.dynamic_color
    /\ theme_cls.ran = <<>>
    /\ Published(ThemeFromSourceColor(HexColormap("Red")))

====
